---- MODULE Spec2Model ----
(***************************************************************************)
(* Model of the Twitch -> Discord role synchronisation bot (src/bot.py,    *)
(* src/twitch_auth.py).  Coroutines are interleaved at their await points: *)
(* every action below is the code that runs between two awaits.            *)
(***************************************************************************)
EXTENDS Integers, Sequences, FiniteSets, TLC

(* ---------------------------- bounds ----------------------------------- *)
\* number of command-triggered sync_roles_task() calls that may be in flight
MaxManual == 1
\* slots of the dict's entry table (live entries and tombstones) while a
\* cycle iterates it; the table is not resized during an iteration
MaxEntries == 3
\* calls of sync_roles_task() started in a run (timer ticks and commands)
MaxCalls == 2
\* !link and !unlink commands in a run
MaxEdits == 1

(* ------------------------- program constants --------------------------- *)
\* DISCORD_SUB_ROLE_ID: non-zero, i.e. the subscriber dimension is configured
DISCORD_SUB_ROLE_ID == 1

None == "None"

Ids == {"u1", "u2"}
Roles == {"vip", "sub"}
\* the !link commands of a run: who links which name
LinkInputs == { <<"u1", "Alice">>, <<"u2", "bob">> }
\* contents of verified_users.json found at start-up
InitFiles ==
  { << [id |-> "u1", name |-> "Alice"] >>,
    << [id |-> "u1", name |-> "alice"], [id |-> "u2", name |-> "bob"] >> }
\* how a write of verified_users.json ends: "ok", "unchanged" (open failed)
\* or "truncated" (the dump failed); here every write succeeds
SaveOutcomes == {"ok"}
\* the Twitch side, fixed during a run: "Alice" is a VIP, "bob" subscribes
InitTruth == { [r \in Roles |-> IF r = "vip" THEN {"Alice"} ELSE {"bob"}] }
\* the guild at start-up
InitRoles == { [i \in Ids |-> IF i = "u1" THEN {"sub"} ELSE {"vip", "sub"}] }

Slots == {0} \cup (1..MaxManual)
LoopSlot == 0

(* ------------------------------ helpers -------------------------------- *)
\* str.lower()
Lower(s) == IF s = "Alice" THEN "alice" ELSE s

LowerAll(S) == { Lower(s) : s \in S }

(* ------------------------- the dict verified_users --------------------- *)
\* The dict is its entry table in insertion order.  del leaves a tombstone
\* (id = None) in the table; positions matter only to a live iterator, so the
\* tombstones are dropped as soon as no cycle is iterating (Settle).
Live(d) == SelectSeq(d, LAMBDA e : e.id # None)

Keys(d) == { d[i].id : i \in 1..Len(d) } \ {None}

\* len(verified_users)
Used(d) == Len(Live(d))

\* verified_users[k] = v : an existing key keeps its slot, a new one is appended
DictSet(d, k, v) ==
  IF k \in Keys(d)
    THEN [i \in 1..Len(d) |-> IF d[i].id = k THEN [id |-> k, name |-> v] ELSE d[i]]
    ELSE Append(d, [id |-> k, name |-> v])

\* del verified_users[k]
DictDel(d, k) ==
  [i \in 1..Len(d) |-> IF d[i].id = k THEN [id |-> None, name |-> None] ELSE d[i]]

\* first slot at or after position p that holds a live entry, or 0
NextLive(d, p) ==
  IF \E i \in p..Len(d) : d[i].id # None
    THEN CHOOSE i \in p..Len(d) :
           d[i].id # None /\ \A j \in p..(i - 1) : d[j].id = None
    ELSE 0

VARIABLES
  verified_users,  \* the global dict (entry table)
  users_file,      \* contents of verified_users.json: entries, or Unparsable
  token_file,      \* twitch_tokens.json: "absent", "fresh" or "expired"
  twitch,          \* the global session: None or "Authed"
  ready,           \* on_ready: "init" (awaiting initialize_twitch) or "done"
  loop_started,    \* sync_roles_task.start() has been called
  truth,           \* role -> set of logins on the Twitch side
  roles,           \* Discord id -> roles held in the guild
  cycles,          \* slot -> frame of a sync_roles_task() call
  calls,           \* number of sync_roles_task() calls started so far
  edits,           \* number of !link / !unlink commands so far
  episode,         \* history: role changes applied while cycles overlap
  phase            \* history: "first": one cycle runs alone, nothing changes;
                   \* "quiet": it ran to its end and nothing has changed since;
                   \* "second": the next cycle runs alone, nothing changes

\* the stores and the authentication manager in detail
VARIABLES
  cred,            \* twitch_tokens.json: absent, truncated, or a stored pair
  manager,         \* the global auth_manager and its TwitchAuthManager
  proc,            \* the process: up, or how it died
  ini,             \* frame of an initialize_twitch() call
  sua,             \* frame of a complete_auth / set_user_auth call
  issued,          \* number of token pairs Twitch has issued so far
  linked,          \* history: id -> name of its last !link (None: unlinked)
  store_ops        \* number of commands, restarts and expiries so far

storeVars == <<cred, manager, proc, ini, sua, issued, linked, store_ops>>

\* what the synchronisation adds to the stores
syncVars == <<token_file, ready, loop_started, truth, roles, cycles, calls,
              edits, episode, phase>>

vars == <<verified_users, users_file, token_file, twitch, ready, loop_started,
          truth, roles, cycles, calls, edits, episode, phase, storeVars>>

(* --------------------- frames of sync_roles_task ----------------------- *)
IdleFrame ==
  [ pc |-> "idle", call |-> "none", sub_role |-> FALSE, channel_id |-> "unset",
    vips |-> {}, subscribers |-> {},
    di_used |-> 0, di_pos |-> 0, di_len |-> 0,
    discord_id |-> None, twitch_username |-> None, member_roles |-> {},
    act |-> "none",
    \* what the call hands to its caller: None, the value of a coroutine that
    \* ends without a return value; "raised" would be an exception
    ret |-> "unset",
    \* the identity whose !unlink made this call (line 463), if any
    unlinked |-> None,
    \* history: the number of role changes the call has made
    mutations |-> 0,
    \* history of this call; vipFetch: how get_vips ended ("ok", "failed",
    \* "noauth"); failed: the identities it skipped, and how
    abort |-> "none", vipFetch |-> "none", ops |-> {}, seen |-> {},
    failed |-> {}, afterQuiet |-> FALSE ]

Active(f) == f.pc # "idle"

Iterating(f) == f.pc \in {"fetch", "vipop", "subop"}

\* a frame at "done" has executed its final statement: the state in which
\* it is seen is the state the call returns in, and Exit is all that follows
ReturningIn(cyc) == \E s \in Slots : cyc[s].pc = "done"

\* the coroutine returns; why: "none" (the loop ran to its end), "session",
\* "guild", "role", "channel", or "dict" (the dict iterator raised and the
\* outer handler of lines 243-245 caught it)
Return(f, why) ==
  [ f EXCEPT !.pc = "done", !.abort = why, !.call = "none", !.ret = None,
             !.vips = {}, !.subscribers = {}, !.di_pos = 0,
             !.discord_id = None, !.twitch_username = None,
             !.member_roles = {}, !.act = "none" ]

\* for ... in verified_users.items(): one step of the dict iterator
NextItem(f, d) ==
  IF Used(d) # f.di_used
    THEN Return(f, "dict")         \* RuntimeError: changed size during iteration
    ELSE LET i == NextLive(d, f.di_pos) IN
         IF i = 0 THEN Return(f, "none")
         ELSE IF f.di_len = 0
           THEN Return(f, "dict")  \* RuntimeError: keys changed during iteration
           ELSE [ f EXCEPT !.pc = "fetch", !.call = "none",
                           !.discord_id = d[i].id,
                           !.twitch_username = d[i].name,
                           !.member_roles = {}, !.act = "none",
                           !.di_pos = i + 1, !.di_len = @ - 1,
                           !.seen = @ \cup {d[i].id} ]

\* the for statement creates the iterator and takes the first item
BeginLoop(f, d) ==
  NextItem([f EXCEPT !.di_used = Used(d), !.di_pos = 1, !.di_len = Used(d)], d)

RoleAction_NoHeldCheck(is_member, has_role) ==
  IF is_member THEN "add"
  ELSE IF has_role THEN "remove"
  ELSE "none"

\* the if / elif of lines 221-226 and 233-238
RoleAction(is_member, has_role) ==
  IF is_member /\ ~has_role THEN "add"
  ELSE IF ~is_member /\ has_role THEN "remove"
  ELSE "none"

\* member.add_roles(role) / member.remove_roles(role) on the guild
ApplyRole(held, role, act) ==
  IF act = "add" THEN held \cup {role} ELSE held \ {role}

\* the entry of get_vips / get_subscribers: the authentication check comes
\* before the API call; without a session the moderators are notified and
\* the empty list is returned
FetchCall(tw) == IF tw = None THEN "noauth" ELSE "api"

FetchResult_AsSupplied(call, outcome, logins) ==
  IF call = "api" /\ outcome = "ok" THEN logins ELSE {}

\* what get_vips / get_subscribers returns for an outcome of the API call:
\* user_login.lower() of every entry (lines 128, 160)
FetchResult(call, outcome, logins) ==
  IF call = "api" /\ outcome = "ok" THEN LowerAll(logins) ELSE {}

\* lines 188-204: guild and roles are looked up, then get_channel_id is awaited
GuildPrefix(f, guild, vip_role, sub_role) ==
  IF ~guild THEN Return(f, "guild")
  ELSE IF ~vip_role THEN Return(f, "role")
  ELSE [f EXCEPT !.pc = "chan",
                 !.sub_role = (DISCORD_SUB_ROLE_ID # 0 /\ sub_role)]

\* lines 183-186 on entry
Enter(f, tw, guild, vip_role, sub_role) ==
  IF tw = None THEN [f EXCEPT !.pc = "init"]
  ELSE GuildPrefix(f, guild, vip_role, sub_role)

\* lines 184-186 once initialize_twitch has returned
AfterInit(f, res, guild, vip_role, sub_role) ==
  IF res = None THEN Return(f, "session")
  ELSE GuildPrefix(f, guild, vip_role, sub_role)

AfterChannel_NoCheck(f, tw) ==
  [f EXCEPT !.pc = "vips", !.call = FetchCall(tw)]

\* lines 204-208 once get_channel_id has returned
AfterChannel(f, tw) ==
  IF f.channel_id = None THEN Return(f, "channel")
  ELSE [f EXCEPT !.pc = "vips", !.call = FetchCall(tw)]

\* lines 229-238: the subscriber dimension of the current identity; the
\* frame waits in add_roles or in remove_roles (act), or the loop goes on
SubStage(f, d) ==
  LET act == RoleAction(Lower(f.twitch_username) \in f.subscribers,
                        "sub" \in f.member_roles)
  IN IF f.sub_role /\ act # "none"
       THEN [f EXCEPT !.pc = "subop", !.act = act]
       ELSE NextItem(f, d)

\* lines 217-226: the VIP dimension of the current identity
VipStage(f, d) ==
  LET act == RoleAction(Lower(f.twitch_username) \in f.vips,
                        "vip" \in f.member_roles)
  IN IF act # "none"
       THEN [f EXCEPT !.pc = "vipop", !.act = act]
       ELSE SubStage(f, d)

\* history: the call has changed role r
Did(f, r) == [f EXCEPT !.ops = @ \cup {<<r, f.act>>}, !.mutations = @ + 1]

\* lines 214-215: no member, continue
AfterNoMember(f, d) ==
  NextItem([f EXCEPT !.failed = @ \cup {<<f.discord_id, "skip">>}], d)

AfterMemberError_Outer(f, d) ==
  Return([f EXCEPT !.failed = @ \cup {<<f.discord_id, "error">>}], "none")

\* lines 240-241: the per-identity handler logs and the loop goes on
AfterMemberError(f, d) ==
  NextItem([f EXCEPT !.failed = @ \cup {<<f.discord_id, "error">>}], d)

\* what initialize_twitch can return: a session only when the stored tokens
\* are loaded (present, not expired) and set_user_authentication accepts them
InitOutcomes(tf) == IF tf = "fresh" THEN {"Authed", None} ELSE {None}

\* json.dump of the dict
Dump(d) == Live(d)

\* a verified_users.json cut short inside json.dump: json.load rejects it
\* (written as one entry without id or name, which no dump produces)
Unparsable == << [id |-> None, name |-> None] >>

\* save_verified_users: open(..., 'w') truncates, json.dump writes; an error
\* is logged and swallowed
SaveResult(old, d, res) ==
  IF res = "ok" THEN Dump(d)
  ELSE IF res = "truncated" THEN Unparsable
  ELSE old

\* load_verified_users: a file that does not parse leaves the dict empty
LoadUsers(file) == IF file = Unparsable THEN <<>> ELSE file

Settle(d, cyc) == IF \E s \in Slots : Iterating(cyc[s]) THEN d ELSE Live(d)

NoEpisode == [applied |-> {}, intact |-> TRUE, doubled |-> FALSE]

\* history: an episode is a period in which some cycle is in flight
Close(ep, cyc) ==
  IF \E s \in Slots : Active(cyc[s]) THEN ep
  ELSE [ep EXCEPT !.applied = {}, !.intact = TRUE]

\* history: a cycle has applied act ("add" / "remove") to role r of identity
\* id; doubled: the same change had been applied before in this episode
Applied(ep, id, r, act) ==
  [ ep EXCEPT !.applied = IF ep.intact THEN @ \cup {<<id, r, act>>} ELSE @,
              !.doubled = @ \/ (ep.intact /\ <<id, r, act>> \in ep.applied) ]

\* history: the identity map changed, or a second cycle came into flight
Disturbed(cyc) == [t \in Slots |-> [cyc[t] EXCEPT !.afterQuiet = FALSE]]

\* a call of sync_roles_task() enters slot s; cyc, ep and ph are the frames,
\* the episode and the phase as the caller leaves them
Start(s, cyc, ep, ph, guild, vip_role, sub_role) ==
  LET alone == \A t \in Slots : ~Active(cyc[t])
      begun == IF ~alone THEN "none"
               ELSE IF ph = "quiet" THEN "second" ELSE "first"
      f     == Enter([cyc[s] EXCEPT !.afterQuiet = (begun = "second")],
                     twitch, guild, vip_role, sub_role)
  IN /\ cycles' = [Disturbed(cyc) EXCEPT ![s] = f]
     /\ calls < MaxCalls
     /\ calls' = calls + 1
     /\ episode' = Close(IF alone THEN NoEpisode ELSE ep, cycles')
     /\ phase' = IF f.pc # "done" THEN begun
                 ELSE IF begun = "second" THEN "quiet" ELSE "none"

Begin(s, guild, vip_role, sub_role) ==
  Start(s, cycles, episode, phase, guild, vip_role, sub_role)

Broken(ep) == [ep EXCEPT !.applied = {}, !.intact = FALSE]

\* history: the phase once a step has left a frame as f
PhaseAfter(f) ==
  IF f.pc # "done" THEN phase
  ELSE IF phase = "second"
            \/ (phase = "first" /\ f.abort = "none" /\ f.failed = {})
    THEN "quiet" ELSE "none"

Kept_SkippedUnlinked(d, f) ==
  [i \in 1..Len(d) |->
     IF \E x \in f.failed : x[1] = d[i].id
       THEN [id |-> None, name |-> None] ELSE d[i]]

\* lines 211-241: the loop body reads verified_users.items() and never
\* assigns to the dict or calls save_verified_users, whatever became of the
\* identities the frame f has visited
Kept(d, f) == d

\* slot s takes a step that leaves its frame as f
Step(s, f, ep) ==
  /\ cycles' = [cycles EXCEPT ![s] = f]
  /\ verified_users' = Settle(Kept(verified_users, f), cycles')
  /\ episode' = Close(ep, cycles')
  /\ phase' = PhaseAfter(f)

(* ------------------ the stores and the manager in detail -------------- *)
\* twitch_tokens.json: the pair it holds (0: none) and whether its expires_at
\* is still ahead
NoCred == [state |-> "absent", pair |-> 0, fresh |-> FALSE]

TruncatedCred == [state |-> "truncated", pair |-> 0, fresh |-> FALSE]

\* save_tokens line 52-59: the record written for a pair, expires_at = now + 3h
Stored(pair) == [state |-> "stored", pair |-> pair, fresh |-> TRUE]

\* the file a run starts with: none, or pair 1 of an earlier authorization
InitCreds == {NoCred, Stored(1)}

\* no TwitchAuthManager has been created yet
NoManager == [exists |-> FALSE, tokens |-> 0, session |-> "none"]

\* TwitchAuthManager.__init__ (twitch_auth.py 12-18): self.twitch = None,
\* self.tokens = None (tokens 0: none; session "none", "app" or "user")
NewManager == [exists |-> TRUE, tokens |-> 0, session |-> "none"]

\* the process runs
Up == [up |-> TRUE, store |-> "none", users |-> << <<>>, <<>> >>,
       cred |-> <<NoCred, NoCred>>]

\* frame of initialize_twitch with TwitchAuthManager.initialize; found: what
\* load_tokens met in the file; refreshes: calls of refresh_auth (history)
IniIdle == [pc |-> "idle", found |-> "none", refreshes |-> 0,
            result |-> "unset"]

\* frame of set_user_auth; pair: the pair the exchange returned (0: none);
\* history: the file and self.tokens as the call found them
SuaIdle == [pc |-> "idle", pair |-> 0, result |-> "unset",
            cred0 |-> NoCred, tokens0 |-> 0]

\* history: the links a file records
LinkedIn(file) ==
  [i \in Ids |-> IF \E k \in 1..Len(file) : file[k].id = i
                   THEN file[CHOOSE k \in 1..Len(file) : file[k].id = i].name
                   ELSE None]

\* the detailed view at rest: Spec follows the stores through token_file
\* and users_file and leaves it so
StoreIdle ==
  /\ cred = NoCred
  /\ manager = NoManager
  /\ proc = Up
  /\ ini = IniIdle
  /\ sua = SuaIdle
  /\ issued = 1
  /\ linked = [i \in Ids |-> None]
  /\ store_ops = 0

(* ------------------------------- Init ---------------------------------- *)
\* on_ready has run load_verified_users and awaits initialize_twitch
Init ==
  /\ users_file \in InitFiles
  /\ verified_users = LoadUsers(users_file)
  /\ token_file \in {"absent", "fresh"}
  /\ twitch = None
  /\ ready = "init"
  /\ loop_started = FALSE
  /\ truth \in InitTruth
  /\ roles \in InitRoles
  /\ cycles = [s \in Slots |-> IdleFrame]
  /\ calls = 0
  /\ edits = 0
  /\ episode = NoEpisode
  /\ phase = "none"
  /\ StoreIdle

(* ------------------------------ on_ready ------------------------------- *)
\* lines 252-257
OnReady ==
  /\ ~ReturningIn(cycles)
  /\ ready = "init"
  /\ \E res \in InitOutcomes(token_file) :
       /\ twitch' = res
       /\ loop_started' = (res # None)
  /\ ready' = "done"
  /\ UNCHANGED <<storeVars, calls, edits, verified_users, users_file, token_file, truth, roles, cycles,
                 episode, phase>>

(* ------------------------ starting a cycle ----------------------------- *)
\* the tasks.loop timer fires: one iteration at a time in the loop's own task
LoopTick ==
  /\ ~ReturningIn(cycles)
  /\ loop_started
  /\ ~Active(cycles[LoopSlot])
  /\ \E guild, vip_role, sub_role \in BOOLEAN :
       Begin(LoopSlot, guild, vip_role, sub_role)
  /\ verified_users' = Settle(verified_users, cycles')
  /\ UNCHANGED <<storeVars, edits, users_file, token_file, twitch, ready, loop_started, truth,
                 roles>>

\* !forcesync: line 590 calls the coroutine in the command's task
ForceSync(s) ==
  /\ ~ReturningIn(cycles)
  /\ s # LoopSlot
  /\ ~Active(cycles[s])
  /\ \E guild, vip_role, sub_role \in BOOLEAN :
       Begin(s, guild, vip_role, sub_role)
  /\ verified_users' = Settle(verified_users, cycles')
  /\ UNCHANGED <<storeVars, edits, users_file, token_file, twitch, ready, loop_started, truth,
                 roles>>

\* !link <name>: lines 390-420
Link(id, name, s, res) ==
  /\ ~ReturningIn(cycles)
  /\ edits < MaxEdits
  /\ edits' = edits + 1
  /\ id \in Keys(verified_users) \/ Len(verified_users) < MaxEntries
  /\ LET d == DictSet(verified_users, id, Lower(name)) IN
     /\ users_file' = SaveResult(users_file, d, res)
     /\ \/ /\ s # LoopSlot
           /\ ~Active(cycles[s])
           /\ \E guild, vip_role, sub_role \in BOOLEAN :
                Start(s, Disturbed(cycles), Broken(episode), "none",
                      guild, vip_role, sub_role)
        \/ \* status_msg.edit raised: line 420 is not reached
           /\ s = LoopSlot
           /\ cycles' = Disturbed(cycles)
           /\ episode' = Close(Broken(episode), cycles')
           /\ phase' = "none"
           /\ calls' = calls
     /\ verified_users' = Settle(d, cycles')
  /\ UNCHANGED <<storeVars, token_file, twitch, ready, loop_started, truth, roles>>

\* !unlink: lines 444-463
Unlink(id, s, res) ==
  /\ ~ReturningIn(cycles)
  /\ edits < MaxEdits
  /\ edits' = edits + 1
  /\ id \in Keys(verified_users)
  /\ LET d == DictDel(verified_users, id) IN
     /\ users_file' = SaveResult(users_file, d, res)
     /\ \/ /\ s # LoopSlot
           /\ ~Active(cycles[s])
           /\ \E guild, vip_role, sub_role \in BOOLEAN :
                Start(s, [Disturbed(cycles) EXCEPT ![s].unlinked = id],
                      Broken(episode), "none", guild, vip_role, sub_role)
        \/ /\ s = LoopSlot
           /\ cycles' = Disturbed(cycles)
           /\ episode' = Close(Broken(episode), cycles')
           /\ phase' = "none"
           /\ calls' = calls
     /\ verified_users' = Settle(d, cycles')
  /\ UNCHANGED <<storeVars, token_file, twitch, ready, loop_started, truth, roles>>

(* ---------------------- steps of sync_roles_task ----------------------- *)
\* line 184: initialize_twitch returns
InitDone(s) ==
  /\ ~ReturningIn(cycles)
  /\ cycles[s].pc = "init"
  /\ \E res \in InitOutcomes(token_file), guild, vip_role, sub_role \in BOOLEAN :
       /\ twitch' = res
       /\ Step(s, AfterInit(cycles[s], res, guild, vip_role, sub_role), episode)
  /\ UNCHANGED <<storeVars, calls, edits, users_file, token_file, ready, loop_started, truth, roles>>

\* line 204: get_channel_id returns an id or None
ChanDone(s) ==
  /\ ~ReturningIn(cycles)
  /\ cycles[s].pc = "chan"
  /\ \E channel_id \in {"id", None} :
       Step(s, AfterChannel([cycles[s] EXCEPT !.channel_id = channel_id],
                            twitch),
            episode)
  /\ UNCHANGED <<storeVars, calls, edits, users_file, token_file, twitch, ready, loop_started, truth,
                 roles>>

\* line 208: get_vips returns; line 209 calls get_subscribers or the loop starts
VipsDone(s) ==
  /\ ~ReturningIn(cycles)
  /\ cycles[s].pc = "vips"
  /\ \E outcome \in {"ok", "notlist", "error"} :
       LET f == cycles[s]
           g == [f EXCEPT !.vips = FetchResult(f.call, outcome, truth["vip"]),
                          !.vipFetch = IF f.call = "noauth" THEN "noauth"
                                       ELSE IF outcome = "ok" THEN "ok"
                                       ELSE "failed"]
       IN Step(s, IF f.sub_role
                    THEN [g EXCEPT !.pc = "subs", !.call = FetchCall(twitch)]
                    ELSE BeginLoop(g, verified_users),
               episode)
  /\ UNCHANGED <<storeVars, calls, edits, users_file, token_file, twitch, ready, loop_started, truth,
                 roles>>

\* line 209: get_subscribers returns; the loop starts
SubsDone(s) ==
  /\ ~ReturningIn(cycles)
  /\ cycles[s].pc = "subs"
  /\ \E outcome \in {"ok", "notlist", "error"} :
       LET f == cycles[s]
           g == [f EXCEPT !.subscribers =
                            FetchResult(f.call, outcome, truth["sub"])]
       IN Step(s, BeginLoop(g, verified_users), episode)
  /\ UNCHANGED <<storeVars, calls, edits, users_file, token_file, twitch, ready, loop_started, truth,
                 roles>>

\* line 213: fetch_member returns a member, returns nothing, or raises
FetchDone(s) ==
  /\ ~ReturningIn(cycles)
  /\ cycles[s].pc = "fetch"
  /\ LET f == cycles[s] IN
     \E res \in {"member", "none", "raise"} :
       Step(s, IF res = "member"
                 THEN VipStage([f EXCEPT !.member_roles = roles[f.discord_id]],
                               verified_users)
                 ELSE IF res = "none"
                   THEN AfterNoMember(f, verified_users)
                   ELSE AfterMemberError(f, verified_users),
            episode)
  /\ UNCHANGED <<storeVars, calls, edits, users_file, token_file, twitch, ready, loop_started, truth,
                 roles>>

\* lines 222 / 225: add_roles / remove_roles of the VIP role returns or raises
VipOpDone(s) ==
  /\ ~ReturningIn(cycles)
  /\ cycles[s].pc = "vipop"
  /\ LET f == cycles[s] IN
     \/ /\ roles' = [roles EXCEPT ![f.discord_id] = ApplyRole(@, "vip", f.act)]
        /\ Step(s, SubStage(Did(f, "vip"), verified_users),
                Applied(episode, f.discord_id, "vip", f.act))
     \/ /\ roles' = roles
        /\ Step(s, AfterMemberError(f, verified_users), episode)
  /\ UNCHANGED <<storeVars, calls, edits, users_file, token_file, twitch, ready,
                 loop_started, truth>>

\* lines 234 / 237: the same for the subscriber role
SubOpDone(s) ==
  /\ ~ReturningIn(cycles)
  /\ cycles[s].pc = "subop"
  /\ LET f == cycles[s] IN
     \/ /\ roles' = [roles EXCEPT ![f.discord_id] = ApplyRole(@, "sub", f.act)]
        /\ Step(s, NextItem(Did(f, "sub"), verified_users),
                Applied(episode, f.discord_id, "sub", f.act))
     \/ /\ roles' = roles
        /\ Step(s, AfterMemberError(f, verified_users), episode)
  /\ UNCHANGED <<storeVars, calls, edits, users_file, token_file, twitch, ready,
                 loop_started, truth>>

\* the call returns to its caller
Exit(s) ==
  /\ cycles[s].pc = "done"
  /\ cycles' = [cycles EXCEPT ![s] = IdleFrame]
  /\ episode' = Close(episode, cycles')
  /\ UNCHANGED <<storeVars, calls, edits, phase, verified_users, users_file, token_file, twitch, ready,
                 loop_started, truth, roles>>

(* ----------------------------- !completeauth --------------------------- *)
\* lines 338-339 with set_user_auth (twitch_auth.py 83-107): the code is
\* exchanged, the tokens are saved, the session is authenticated
CompleteAuth ==
  /\ ~ReturningIn(cycles)
  /\ \E res \in {"ok", "exchange_failed", "auth_failed"}, saved \in BOOLEAN :
       /\ token_file' = IF res # "exchange_failed" /\ saved
                          THEN "fresh" ELSE token_file
       /\ twitch' = IF res = "ok" THEN "Authed" ELSE twitch
  /\ UNCHANGED <<storeVars, calls, edits, verified_users, users_file, ready, loop_started, truth, roles,
                 cycles, episode, phase>>

(* ---------------------------- environment ------------------------------ *)
\* the stored access token passes its expires_at
TokenExpire ==
  /\ ~ReturningIn(cycles)
  /\ token_file = "fresh"
  /\ token_file' = "expired"
  /\ UNCHANGED <<storeVars, calls, edits, verified_users, users_file, twitch, ready, loop_started, truth,
                 roles, cycles, episode, phase>>

Next ==
  \/ OnReady
  \/ LoopTick
  \/ \E s \in Slots : ForceSync(s)
  \/ \E in \in LinkInputs, s \in Slots, res \in SaveOutcomes :
       Link(in[1], in[2], s, res)
  \/ \E id \in Ids, s \in Slots, res \in SaveOutcomes :
       Unlink(id, s, res)
  \/ \E s \in Slots : InitDone(s)
  \/ \E s \in Slots : ChanDone(s)
  \/ \E s \in Slots : VipsDone(s)
  \/ \E s \in Slots : SubsDone(s)
  \/ \E s \in Slots : FetchDone(s)
  \/ \E s \in Slots : VipOpDone(s)
  \/ \E s \in Slots : SubOpDone(s)
  \/ \E s \in Slots : Exit(s)
  \/ CompleteAuth
  \/ TokenExpire

Spec == Init /\ [][Next]_vars

(* ------------------------------ properties ----------------------------- *)
\* frames of calls that are between their first and their last statement
InFlight == { s \in Slots : cycles[s].pc \notin {"idle", "done"} }

\* the identities a call skipped
Skipped(f) == { x[1] : x \in f.failed }

\* identity id with login name holds role r exactly when the Twitch side
\* lists the login for r
Agrees(id, name, r) == (r \in roles[id]) <=> (Lower(name) \in LowerAll(truth[r]))

\* C1: at most one reconciliation cycle is in progress at any time, whatever
\* mix of timer ticks and command triggers starts them
C1_OneCycleAtATime == Cardinality(InFlight) <= 1

\* C2: a cycle whose VIP fetch failed removes the VIP role from nobody
C2_NoRemovalAfterFailedFetch ==
  \A s \in Slots :
    cycles[s].vipFetch = "failed" => <<"vip", "remove">> \notin cycles[s].ops

\* C3: when a cycle has run to its end, every linked identity it did not skip
\* holds each configured role exactly when its login is in the Twitch set
C3_DiffCorrect ==
  \A s \in Slots :
    LET f == cycles[s] IN
    (f.pc = "done" /\ f.abort = "none") =>
      \A i \in 1..Len(verified_users) :
        LET e == verified_users[i] IN
        (e.id # None /\ e.id \notin Skipped(f)) =>
          /\ Agrees(e.id, e.name, "vip")
          /\ f.sub_role => Agrees(e.id, e.name, "sub")

\* C4: a cycle that follows a completed cycle which skipped nobody, with no
\* change to the Twitch side, the guild's roles or the identity map in
\* between, changes no role
C4_Idempotent ==
  \A s \in Slots : cycles[s].afterQuiet => cycles[s].ops = {}

\* C5: while triggers overlap and the identity map and the Twitch side stay
\* as they are, no role change is applied a second time
C5_NoDoubleApply == ~episode.doubled

\* C6: a cycle that has no usable Twitch session (initialize_twitch gave none,
\* or the session was gone when the VIP set was fetched) changes no role
C6_SessionNoOp ==
  \A s \in Slots :
    (cycles[s].abort = "session" \/ cycles[s].vipFetch = "noauth") =>
      cycles[s].ops = {}

\* C7: a cycle whose channel lookup gave no id has returned at that point,
\* having fetched nothing and changed no role
C7_ChannelAbort ==
  \A s \in Slots :
    LET f == cycles[s] IN
    f.channel_id = None =>
      /\ f.pc = "done" /\ f.abort = "channel"
      /\ f.vipFetch = "none" /\ f.seen = {} /\ f.ops = {}

\* a call has returned for want of a channel id while a linked identity's
\* VIP role disagrees with the Twitch side
C7_Witness ==
  \E s \in Slots :
    /\ cycles[s].pc = "done" /\ cycles[s].channel_id = None
    /\ \E i \in 1..Len(verified_users) :
         /\ verified_users[i].id # None
         /\ ~Agrees(verified_users[i].id, verified_users[i].name, "vip")

\* C8: once on_ready has finished, the periodic loop is running, whether or
\* not the session could be established at start-up
C8_LoopKeepsFiring == ready = "done" => loop_started

\* C9: a cycle waits in add_roles only when the login is in the set it
\* fetched and the role is absent from the member it fetched, and in
\* remove_roles only when the role is held and the login is not in the set
C9_StrictXor ==
  \A s \in Slots :
    LET f   == cycles[s]
        vip == Lower(f.twitch_username) \in f.vips
        sub == Lower(f.twitch_username) \in f.subscribers
    IN /\ f.pc = "vipop" =>
            \/ f.act = "add" /\ vip /\ "vip" \notin f.member_roles
            \/ f.act = "remove" /\ ~vip /\ "vip" \in f.member_roles
       /\ f.pc = "subop" =>
            \/ f.act = "add" /\ sub /\ "sub" \notin f.member_roles
            \/ f.act = "remove" /\ ~sub /\ "sub" \in f.member_roles

\* a call that has added a VIP role waits in remove_roles for the
\* subscriber role
C9_Witness ==
  \E s \in Slots :
    /\ cycles[s].pc = "subop" /\ cycles[s].act = "remove"
    /\ <<"vip", "add">> \in cycles[s].ops

\* C10: a call in which an identity's member lookup or role call raised is
\* not ended by that error: it goes on to the remaining identities and, unless
\* the dict iterator itself raises, returns after having visited every one
C10_FailureSkipped ==
  \A s \in Slots :
    LET f == cycles[s] IN
    (f.pc = "done" /\ \E x \in f.failed : x[2] = "error") =>
      /\ f.abort \in {"none", "dict"}
      /\ f.abort = "none" => f.seen = Keys(verified_users)

\* a call has returned from the end of its loop: u1 raised, u2 was visited
\* afterwards and lost its VIP role
C10_Witness ==
  \E s \in Slots :
    LET f == cycles[s] IN
    /\ f.pc = "done" /\ f.abort = "none"
    /\ <<"u1", "error">> \in f.failed
    /\ "u2" \in f.seen /\ <<"vip", "remove">> \in f.ops

\* lines 589-597 (and 420-429, 463-484): what a command tells its user about
\* the cycle it awaited: the failure text only when the await raised
Report(f) == IF f.ret = "raised" THEN "failed" ELSE "completed"

\* C11: a cycle that has run to its end hands its caller the number of role
\* changes it made (1 after adding one role, 0 when it changed nothing)
C11_ReportsCount ==
  \A s \in Slots :
    LET f == cycles[s] IN
    (f.pc = "done" /\ f.abort = "none") =>
      (f.ret # None /\ f.ret = f.mutations)

\* C12: a command-triggered cycle that was aborted (no session, no guild, no
\* role, no channel id, an unexpected error) is reported to its caller as a
\* failure, a cycle that ran to its end as completed
C12_AbortReported ==
  \A s \in Slots \ {LoopSlot} :
    LET f == cycles[s] IN
    f.pc = "done" => (Report(f) = "failed" <=> f.abort # "none")

\* C20: when the synchronization that !unlink starts has run to its end, the
\* unlinked identity holds neither the VIP nor the subscriber role
C20_UnlinkRemovesRoles ==
  \A s \in Slots :
    LET f == cycles[s] IN
    (/\ f.pc = "done" /\ f.abort = "none"
     /\ f.unlinked # None /\ f.unlinked \notin Keys(verified_users)) =>
      roles[f.unlinked] \cap Roles = {}

\* C21: a step of !completeauth that reports success leaves the periodic loop
\* running, whether or not on_ready had started it
C21_AuthStartsLoop ==
  [][(CompleteAuth /\ ready = "done" /\ twitch = None /\ twitch' = "Authed")
        => loop_started']_vars

\* C22: a step of a cycle (any step that is not a !link or !unlink command)
\* leaves the entries of the identity map and verified_users.json as they
\* were; an identity without a guild member is passed over, not unlinked
C22_CycleKeepsMap ==
  [][(edits' = edits /\ \E s \in Slots : cycles'[s] # cycles[s]) =>
       (Live(verified_users') = Live(verified_users)
          /\ users_file' = users_file)]_vars

\* a call has returned from the end of its loop after fetch_member found no
\* member for u1, and u1 is still linked
C22_Witness ==
  \E s \in Slots :
    LET f == cycles[s] IN
    /\ f.pc = "done" /\ f.abort = "none"
    /\ <<"u1", "skip">> \in f.failed
    /\ "u1" \in Keys(verified_users)
    /\ users_file = Live(verified_users)

\* the stored name and some login of the set agree up to case
CountsAs(name, logins) == \E l \in logins : Lower(l) = Lower(name)

\* C23: every name a !link stores is lower-case, and a cycle that fetched the
\* VIP set waits in add_roles exactly when the stored name equals, up to
\* case, a login on the Twitch side (in remove_roles exactly when it does
\* not), and passes the VIP role by exactly when holding it and being such
\* a name agree; it adds the subscriber role only for such a name
C23_CaseInsensitive ==
  [][/\ \A k \in 1..Len(verified_users') :
          (\A j \in 1..Len(verified_users) :
              verified_users[j] # verified_users'[k])
            => verified_users'[k].name = Lower(verified_users'[k].name)
     /\ \A s \in Slots :
          LET f == cycles'[s] IN
          /\ (f.pc = "vipop" /\ f.vipFetch = "ok") =>
                (f.act = "add" <=> CountsAs(f.twitch_username, truth["vip"]))
          /\ (cycles[s].pc = "fetch" /\ f.pc = "subop" /\ f.vipFetch = "ok") =>
                (CountsAs(f.twitch_username, truth["vip"])
                   <=> "vip" \in f.member_roles)
          /\ (f.pc = "subop" /\ f.act = "add") =>
                CountsAs(f.twitch_username, truth["sub"])]_vars

\* a cycle waits in add_roles for the VIP role of an identity stored as
\* "alice" while the Twitch side lists the login as "Alice"
C23_Witness ==
  \E s \in Slots :
    LET f == cycles[s] IN
    /\ f.pc = "vipop" /\ f.act = "add" /\ f.vipFetch = "ok"
    /\ f.twitch_username = "alice"
    /\ "Alice" \in truth["vip"] /\ "alice" \notin truth["vip"]

\* C24: no call ends because a !link or !unlink changed the dict while the
\* call was inside its loop: a call that has returned either stopped before
\* the loop or ran the loop to its end
C24_EditKeepsCycle ==
  \A s \in Slots :
    LET f == cycles[s] IN
    f.pc = "done" => f.abort # "dict"

(* ---------------- the stores across commands and restarts -------------- *)
\* commands, restarts and expiries in a run
MaxStoreOps == 4
\* token pairs Twitch issues in a run, the stored one included
MaxPairs == 3

\* the !link commands of a run
StoreLinkInputs == { <<"u1", "bob">>, <<"u2", "Alice">> }

\* how a write ends when the process survives it
WriteOutcomes == {"ok", "unchanged", "truncated"}

\* where in a write the process can die: before open(..., 'w'), between the
\* open and the end of json.dump, after the dump
CrashPoints == {"before", "during", "after"}

\* what a write cut short at a crash point leaves, as an outcome of the write
CrashAs(point) ==
  IF point = "before" THEN "unchanged"
  ELSE IF point = "during" THEN "truncated"
  ELSE "ok"

\* save_tokens lines 58-59: open(..., 'w') truncates, json.dump writes
SaveTokens(old, pair, res) ==
  IF res = "ok" THEN Stored(pair)
  ELSE IF res = "truncated" THEN TruncatedCred
  ELSE old

\* load_tokens: what it meets in the file
Found(c) ==
  IF c.state = "absent" THEN "absent"
  ELSE IF c.state = "truncated" THEN "corrupt"
  ELSE IF c.fresh THEN "fresh"
  ELSE "expired"

\* load_tokens line 38: self.tokens is assigned as soon as the file parses
TokensLoaded(c, tokens) == IF c.state = "stored" THEN c.pair ELSE tokens

\* load_tokens lines 41-45: True only for a parsed, unexpired record
LoadTokensResult(c) == Found(c) = "fresh"

HandleFor_Unchecked(session) ==
  IF session = "none" THEN None ELSE "handle"

\* initialize_twitch lines 72-87: the instance is handed on only when it is
\* there and has_user_auth
HandleFor(session) ==
  IF session = "user" THEN "handle" ELSE None

\* the process is gone: memory is lost
MemoryLost ==
  /\ verified_users' = <<>>
  /\ manager' = NoManager
  /\ twitch' = None
  /\ ini' = IniIdle
  /\ sua' = SuaIdle

\* a command, a restart or an expiry is counted
Counted ==
  /\ store_ops < MaxStoreOps
  /\ store_ops' = store_ops + 1

\* !link, lines 390-403
StoreLink(id, name, res) ==
  /\ proc.up
  /\ Counted
  /\ LET d == DictSet(verified_users, id, Lower(name)) IN
     /\ verified_users' = Settle(d, cycles)
     /\ users_file' = SaveResult(users_file, d, res)
  /\ linked' = [linked EXCEPT ![id] = Lower(name)]
  /\ UNCHANGED <<syncVars, twitch, cred, manager, proc, ini, sua, issued>>

\* !link: the process dies inside save_verified_users (lines 59-60)
StoreLinkCrash(id, name, point) ==
  /\ proc.up
  /\ Counted
  /\ LET d == DictSet(verified_users, id, Lower(name)) IN
     /\ users_file' = SaveResult(users_file, d, CrashAs(point))
     /\ proc' = [up |-> FALSE, store |-> "users",
                 users |-> <<users_file, Dump(d)>>,
                 cred |-> <<NoCred, NoCred>>]
  /\ MemoryLost
  /\ UNCHANGED <<syncVars, cred, issued, linked>>

\* !unlink, lines 444-447
StoreUnlink(id, res) ==
  /\ proc.up
  /\ Counted
  /\ id \in Keys(verified_users)
  /\ LET d == DictDel(verified_users, id) IN
     /\ verified_users' = Settle(d, cycles)
     /\ users_file' = SaveResult(users_file, d, res)
  /\ linked' = [linked EXCEPT ![id] = None]
  /\ UNCHANGED <<syncVars, twitch, cred, manager, proc, ini, sua, issued>>

\* the process is started (again): globals of lines 42-44, then on_ready
\* line 251 loads the identity map
Restart ==
  /\ Counted
  /\ proc' = Up
  /\ verified_users' = LoadUsers(users_file)
  /\ manager' = NoManager
  /\ twitch' = None
  /\ ini' = IniIdle
  /\ sua' = SuaIdle
  /\ UNCHANGED <<syncVars, users_file, cred, issued, linked>>

\* the stored access token passes its expires_at
TokenAge ==
  /\ Counted
  /\ cred.state = "stored" /\ cred.fresh
  /\ cred' = [cred EXCEPT !.fresh = FALSE]
  /\ UNCHANGED <<syncVars, verified_users, users_file, twitch, manager, proc,
                 ini, sua, issued, linked>>

\* initialize_twitch lines 69-70: a new manager replaces the global one and
\* its initialize() awaits Twitch(...)
InitializeCall ==
  /\ proc.up
  /\ Counted
  /\ ini.pc = "idle" /\ sua.pc = "idle"
  /\ manager' = NewManager
  /\ ini' = [IniIdle EXCEPT !.pc = "twitch"]
  /\ UNCHANGED <<syncVars, verified_users, users_file, twitch, cred, proc,
                 sua, issued, linked>>

\* initialize_twitch returns what HandleFor makes of the session; line 76
\* stores a handle in the global
Returned(f, session) ==
  /\ ini' = [f EXCEPT !.pc = "done", !.result = HandleFor(session)]
  /\ twitch' = IF HandleFor(session) = None THEN twitch ELSE "Authed"

\* twitch_auth.py 22-28: Twitch(...) returns or raises, load_tokens reads the
\* file, and refresh_auth is awaited only when load_tokens said True
TwitchDone ==
  /\ proc.up
  /\ ini.pc = "twitch"
  /\ \/ /\ manager' = manager
        /\ Returned(ini, "none")
     \/ /\ manager' = [manager EXCEPT !.session = "app",
                                      !.tokens = TokensLoaded(cred, @)]
        /\ IF LoadTokensResult(cred)
             THEN /\ ini' = [ini EXCEPT !.pc = "refresh", !.found = Found(cred),
                                        !.refreshes = @ + 1]
                  /\ twitch' = twitch
             ELSE Returned([ini EXCEPT !.found = Found(cred)], "app")
  /\ UNCHANGED <<syncVars, store_ops, verified_users, users_file, cred, proc, sua,
                 issued, linked>>

\* refresh_auth lines 115-124: set_user_authentication with the stored pair
\* succeeds, raises TwitchAPIException (caught), or raises something else
\* (caught by initialize, line 30)
RefreshDone ==
  /\ proc.up
  /\ ini.pc = "refresh"
  /\ \E out \in {"ok", "api_error", "error"} :
       /\ manager' = IF out = "ok" THEN [manager EXCEPT !.session = "user"]
                     ELSE manager
       /\ Returned(ini, IF out = "error" THEN "none" ELSE manager'.session)
  /\ UNCHANGED <<syncVars, store_ops, verified_users, users_file, cred, proc, sua,
                 issued, linked>>

\* the caller of initialize_twitch goes on
IniExit ==
  /\ proc.up
  /\ ini.pc = "done"
  /\ ini' = IniIdle
  /\ UNCHANGED <<syncVars, store_ops, verified_users, users_file, twitch, cred, manager,
                 proc, sua, issued, linked>>

\* !completeauth lines 333-338 with set_user_auth lines 85-95: the code is
\* sent to Twitch
SetUserAuthCall ==
  /\ proc.up
  /\ Counted
  /\ manager.exists
  /\ ini.pc = "idle" /\ sua.pc = "idle"
  /\ issued < MaxPairs
  /\ sua' = [SuaIdle EXCEPT !.pc = "exchange", !.cred0 = cred,
                            !.tokens0 = manager.tokens]
  /\ UNCHANGED <<syncVars, verified_users, users_file, twitch, cred, manager,
                 proc, ini, issued, linked>>

\* lines 95-98: authenticate raises, or returns a pair that save_tokens
\* keeps in self.tokens and writes, whatever becomes of the write
ExchangeDone ==
  /\ proc.up
  /\ sua.pc = "exchange"
  /\ \/ /\ sua' = [sua EXCEPT !.pc = "done", !.result = FALSE]
        /\ UNCHANGED <<cred, manager, issued>>
     \/ /\ manager.session # "none"
        /\ issued' = issued + 1
        /\ manager' = [manager EXCEPT !.tokens = issued']
        /\ \E res \in WriteOutcomes : cred' = SaveTokens(cred, issued', res)
        /\ sua' = [sua EXCEPT !.pc = "setauth", !.pair = issued']
  /\ UNCHANGED <<syncVars, store_ops, verified_users, users_file, twitch, proc, ini,
                 linked>>

\* the process dies inside save_tokens (lines 58-59)
ExchangeCrash(point) ==
  /\ proc.up
  /\ sua.pc = "exchange"
  /\ manager.session # "none"
  /\ issued' = issued + 1
  /\ cred' = SaveTokens(cred, issued', CrashAs(point))
  /\ proc' = [up |-> FALSE, store |-> "cred", users |-> << <<>>, <<>> >>,
              cred |-> <<cred, Stored(issued')>>]
  /\ MemoryLost
  /\ UNCHANGED <<syncVars, users_file, linked, store_ops>>

\* lines 98-107: set_user_authentication returns (True) or raises (False);
\* bot.py 338-339 takes the session over on True
SetAuthDone ==
  /\ proc.up
  /\ sua.pc = "setauth"
  /\ \E ok \in BOOLEAN :
       /\ sua' = [sua EXCEPT !.pc = "done", !.result = ok]
       /\ manager' = IF ok THEN [manager EXCEPT !.session = "user"] ELSE manager
       /\ twitch' = IF ok THEN "Authed" ELSE twitch
  /\ UNCHANGED <<syncVars, store_ops, verified_users, users_file, cred, proc, ini,
                 issued, linked>>

\* complete_auth has sent its answer
SuaExit ==
  /\ proc.up
  /\ sua.pc = "done"
  /\ sua' = SuaIdle
  /\ UNCHANGED <<syncVars, store_ops, verified_users, users_file, twitch, cred, manager,
                 proc, ini, issued, linked>>

\* the start of a run seen through the stores
InitStore ==
  /\ users_file \in InitFiles
  /\ verified_users = LoadUsers(users_file)
  /\ token_file = "absent"
  /\ twitch = None
  /\ ready = "init"
  /\ loop_started = FALSE
  /\ truth \in InitTruth
  /\ roles \in InitRoles
  /\ cycles = [s \in Slots |-> IdleFrame]
  /\ calls = 0
  /\ edits = 0
  /\ episode = NoEpisode
  /\ phase = "none"
  /\ cred \in InitCreds
  /\ manager = NoManager
  /\ proc = Up
  /\ ini = IniIdle
  /\ sua = SuaIdle
  /\ issued = 1
  /\ linked = LinkedIn(users_file)
  /\ store_ops = 0

NextStore ==
  \/ \E in \in StoreLinkInputs, res \in WriteOutcomes :
       StoreLink(in[1], in[2], res)
  \/ \E in \in StoreLinkInputs, point \in CrashPoints :
       StoreLinkCrash(in[1], in[2], point)
  \/ \E id \in Ids, res \in WriteOutcomes : StoreUnlink(id, res)
  \/ Restart
  \/ TokenAge
  \/ InitializeCall
  \/ TwitchDone
  \/ RefreshDone
  \/ IniExit
  \/ SetUserAuthCall
  \/ ExchangeDone
  \/ \E point \in CrashPoints : ExchangeCrash(point)
  \/ SetAuthDone
  \/ SuaExit

SpecStore == InitStore /\ [][NextStore]_vars

(* ------------------------ properties of the stores --------------------- *)
\* C13: an initialize that met a stored but expired credential has made one
\* refresh attempt with it before giving up, and one that met an unexpired
\* credential has used it
C13_ExpiredIsRefreshed ==
  (ini.pc = "done" /\ ini.found \in {"expired", "fresh"}) => ini.refreshes = 1

\* C14: once the session has been validated against a stored credential that
\* was past its expiry, the store holds a renewed pair; a credential that was
\* still fresh is left as it is
C14_RefreshPersisted ==
  ini.pc = "done" =>
    /\ ini.found = "expired" =>
         (cred.state = "stored" /\ cred.fresh /\ manager.tokens = cred.pair)
    /\ ini.found = "fresh" =>
         (cred.state = "stored" /\ manager.tokens = cred.pair)

C16_SuccessIsPersisted ==
  (sua.pc = "done" /\ sua.result) =>
    /\ cred.state = "stored" /\ cred.pair = sua.pair
    /\ manager.session = "user"

\* C17: after the process died inside save_verified_users or save_tokens the
\* file holds the complete old record or the complete new one
C17_AtomicReplace ==
  ~proc.up =>
    /\ proc.store = "users" =>
         (users_file = proc.users[1] \/ users_file = proc.users[2])
    /\ proc.store = "cred" =>
         (cred = proc.cred[1] \/ cred = proc.cred[2])

\* C18: every identity whose last command was a !link that reported success
\* is mapped to that name, restarts included
C18_LinkPersists ==
  proc.up =>
    \A i \in Ids :
      linked[i] # None =>
        \E k \in 1..Len(verified_users) :
          verified_users[k].id = i /\ verified_users[k].name = linked[i]

\* C19: no two identities are mapped to the same external name
C19_NameHasOneOwner ==
  \A j, k \in 1..Len(verified_users) :
    (j # k /\ verified_users[j].id # None /\ verified_users[k].id # None) =>
      Lower(verified_users[j].name) # Lower(verified_users[k].name)

\* C25: when set_user_auth has returned False, twitch_tokens.json holds what
\* it held when the call began (expiry aside) and so does self.tokens
C25_FailureChangesNothing ==
  (sua.pc = "done" /\ sua.result = FALSE) =>
    /\ cred.state = sua.cred0.state /\ cred.pair = sua.cred0.pair
    /\ manager.tokens = sua.tokens0

====
